---------------------------- MODULE Spec2Model ----------------------------
(***************************************************************************)
(* QuerySense: the in-memory full-text search engine (SearchEngine, with   *)
(* its document store and inverted index) and the HTTP handlers that       *)
(* drive it.                                                               *)
(*                                                                         *)
(* Text is a sequence of one-character strings, so that tokenization,      *)
(* lowercasing and splitting are computed character by character as the    *)
(* regular expressions of the source do.                                   *)
(*                                                                         *)
(* A score is the exact rational num/den with den = queryWords.length.     *)
(* The source computes it in IEEE doubles, which order two different       *)
(* values of this kind as the rationals do; two equal rationals may differ *)
(* in the last bit there, which can only reorder documents that tie.       *)
(***************************************************************************)
EXTENDS Integers, Sequences, FiniteSets

\* ------------------------------------------------------------------ bounds

\* Largest limit handed to search (the smallest is -1).
MaxLimit == 2
\* addDocument is offered only while the index holds at most this many
\* word occurrences after it (re-adding an id grows its posting lists).
MaxTotalWords == 5

\* Number of HTTP requests the server receives.
MaxRequests == 3
\* ------------------------------------------------------------------ inputs

\* The document ids the callers use.
Ids == {"d1", "d2"}

\* Document contents handed to addDocument, as sequences of characters.
ContentPool ==
    << <<"C", "a", "t", " ", "d", "o", "g", " ", "c", "a", "t", ".">>,   \* 'Cat dog cat.'
       <<"D", "o", "g", "-", "b", "i", "r", "d", ",", " ", "o", "k">>,   \* 'Dog-bird, ok'
       <<"H", "i", ".", " ", "O", "k", ".">> >>   \* 'Hi. Ok.'

\* Query strings handed to search, as sequences of characters.
QueryPool ==
    << <<"D", "o", "g", " ", "C", "A", "T">>,   \* 'Dog CAT'
       <<>>,   \* ''
       <<" ", " ", " ">>,   \* '   '
       <<"o", "k", " ", "?", "!">>,   \* 'ok ?!'
       <<"f", "i", "s", "h">>,   \* 'fish'
       <<"b", "i", "r", "d", " ", "c", "a", "t", " ", "c", "a", "t">> >>   \* 'bird cat cat'

FilenamePool == <<"a.txt", "b.md", "c.txt">>

\* The documents a caller may hand to addDocument: any id with any content;
\* the filename and the upload time go with the content.
DocInputs ==
    {[id |-> i, filename |-> FilenamePool[k], content |-> ContentPool[k],
      uploadedAt |-> k] : i \in Ids, k \in 1..Len(ContentPool)}

Queries == {QueryPool[k] : k \in 1..Len(QueryPool)}
Limits == (0 - 1)..MaxLimit

\* ------------------------------------------------------------------ characters

LowerLetters ==
    <<"a", "b", "c", "d", "e", "f", "g", "h", "i", "j", "k", "l", "m",
      "n", "o", "p", "q", "r", "s", "t", "u", "v", "w", "x", "y", "z">>
UpperLetters ==
    <<"A", "B", "C", "D", "E", "F", "G", "H", "I", "J", "K", "L", "M",
      "N", "O", "P", "Q", "R", "S", "T", "U", "V", "W", "X", "Y", "Z">>
Digits == {"0", "1", "2", "3", "4", "5", "6", "7", "8", "9"}

Range(s) == {s[i] : i \in 1..Len(s)}

\* [a-zA-Z0-9]
AlnumChars == Range(LowerLetters) \cup Range(UpperLetters) \cup Digits
IsAlnum(c) == c \in AlnumChars
\* \s
WhitespaceChars == {" ", "\t", "\n", "\r", "\f"}
IsSpace(c) == c \in WhitespaceChars

\* String.prototype.toLowerCase, one character
LowerOf == [c \in Range(UpperLetters) |->
              LowerLetters[CHOOSE i \in 1..Len(UpperLetters) : UpperLetters[i] = c]]

ToLowerChar(c) == IF c \in DOMAIN LowerOf THEN LowerOf[c] ELSE c

ToLowerCase(s) == [i \in 1..Len(s) |-> ToLowerChar(s[i])]

RECURSIVE TrimStart(_)
TrimStart(s) ==
    IF s # <<>> /\ IsSpace(Head(s)) THEN TrimStart(Tail(s)) ELSE s

RECURSIVE TrimEnd(_)
TrimEnd(s) ==
    IF s # <<>> /\ IsSpace(s[Len(s)]) THEN TrimEnd(SubSeq(s, 1, Len(s) - 1)) ELSE s

\* String.prototype.trim
Trim(s) == TrimEnd(TrimStart(s))

\* ------------------------------------------------------------------ tokenize

\* .replace(/[^a-zA-Z0-9\s]/g, ' ')
ReplaceNonAlnum(s) ==
    [i \in 1..Len(s) |-> IF IsAlnum(s[i]) \/ IsSpace(s[i]) THEN s[i] ELSE " "]

\* The least member of a non-empty set of positions
Least(S) == CHOOSE k \in S : \A m \in S : k <= m

\* String.prototype.split on a pattern [seps]+ : every maximal run of
\* separator characters is one separator; a separator at either end leaves an
\* empty string there, and the empty text splits into one empty string.
\* From position i the piece runs to the next separator, and the scan
\* resumes behind the run of separators that starts there.
RECURSIVE SplitFrom(_, _, _, _, _)
SplitFrom(seps, s, i, cur, acc) ==
    LET separators == {k \in i..Len(s) : s[k] \in seps}
    IN  IF separators = {} THEN Append(acc, cur \o SubSeq(s, i, Len(s)))
        ELSE LET j == Least(separators)
                 others == {k \in j..Len(s) : s[k] \notin seps}
                 next == IF others = {} THEN Len(s) + 1 ELSE Least(others)
             IN  SplitFrom(seps, s, next, <<>>,
                           Append(acc, cur \o SubSeq(s, i, j - 1)))

\* .split(/\s+/)
SplitWhitespace(s) == SplitFrom(WhitespaceChars, s, 1, <<>>, <<>>)

MapTrim(words) == [i \in 1..Len(words) |-> Trim(words[i])]

LongerThanTwo(word) == Len(word) > 2
NonEmpty(word) == Len(word) > 0

\* tokenize as it would be without its filter on the word length
tokenizeKeepShort(text) ==
    SelectSeq(MapTrim(SplitWhitespace(ReplaceNonAlnum(text))), NonEmpty)

\* .replace(/[^a-zA-Z0-9\s]/g, ' ') applied to each word of a sequence
MapReplaceNonAlnum(words) == [i \in 1..Len(words) |-> ReplaceNonAlnum(words[i])]

\* tokenize as it would be with the punctuation replaced after the split
\* and the length filter
tokenizeSplitFirst(text) ==
    SelectSeq(MapTrim(MapReplaceNonAlnum(SelectSeq(SplitWhitespace(text),
                                                   LongerThanTwo))),
              NonEmpty)

tokenize(text) ==
    SelectSeq(MapTrim(SelectSeq(SplitWhitespace(ReplaceNonAlnum(text)),
                                LongerThanTwo)),
              NonEmpty)

\* ------------------------------------------------------------------ state

VARIABLES
    documents,      \* SearchEngine.documents: Map id -> document, in insertion order
    invertedIndex,  \* SearchEngine.invertedIndex: word -> Map docId -> positions
    lastOp,         \* the last call made on the engine directly, and what it returned
    requests,       \* the HTTP requests received so far, each with its handler's position
    uuids,          \* the number of uuidv4() document ids handed out
    input,          \* the arguments of a method called on its own
    output          \* what that method returned, once it has been called

httpVars == <<requests, uuids>>
fnVars == <<input, output>>
vars == <<documents, invertedIndex, lastOp, requests, uuids, input, output>>

\* ------------------------------------------------------------------ Map helpers

\* this.documents as a sequence of documents in insertion order
StoredIds(docs) == {docs[i].id : i \in 1..Len(docs)}

\* Map.prototype.get (NoDocument is undefined)
NoDocument == [id |-> "", filename |-> "", content |-> <<>>, uploadedAt |-> 0]

DocumentsGet(docs, id) ==
    IF id \in StoredIds(docs)
    THEN docs[CHOOSE i \in 1..Len(docs) : docs[i].id = id]
    ELSE NoDocument

\* Map.prototype.set as it would be if it wrote to the first entry of a
\* Map that has one
DocumentsSetFirst(docs, document) ==
    IF docs = <<>> THEN <<document>> ELSE [docs EXCEPT ![1] = document]

\* Map.prototype.set: an existing key keeps its place
DocumentsSet(docs, document) ==
    IF document.id \in StoredIds(docs)
    THEN [i \in 1..Len(docs) |-> IF docs[i].id = document.id THEN document ELSE docs[i]]
    ELSE Append(docs, document)

\* Map.prototype.delete
DocumentsDelete(docs, id) == SelectSeq(docs, LAMBDA d : d.id # id)

\* A posting map (docMap) is a sequence of [docId, positions] in insertion order.
DocMapHas(docMap, id) == \E i \in 1..Len(docMap) : docMap[i].docId = id

DocMapGet(docMap, id) ==
    docMap[CHOOSE i \in 1..Len(docMap) : docMap[i].docId = id].positions

DocMapIds(docMap) == {docMap[i].docId : i \in 1..Len(docMap)}

DocMapDelete(docMap, id) == SelectSeq(docMap, LAMBDA e : e.docId # id)

\* ------------------------------------------------------------------ addDocument

\* One round of words.forEach((word, position) => ...) in indexDocument
IndexWord(idx, id, word, position) ==
    LET docMap == IF word \in DOMAIN idx THEN idx[word] ELSE <<>>
        withDoc == IF DocMapHas(docMap, id)
                   THEN docMap
                   ELSE Append(docMap, [docId |-> id, positions |-> <<>>])
        pushed == [i \in 1..Len(withDoc) |->
                     IF withDoc[i].docId = id
                     THEN [withDoc[i] EXCEPT !.positions = Append(@, position)]
                     ELSE withDoc[i]]
    IN  [w \in DOMAIN idx \cup {word} |-> IF w = word THEN pushed ELSE idx[w]]

RECURSIVE IndexWords(_, _, _, _)
IndexWords(idx, id, words, n) ==
    IF n > Len(words) THEN idx
    ELSE IndexWords(IndexWord(idx, id, words[n], n - 1), id, words, n + 1)

\* this.tokenize(document.content.toLowerCase())
ContentWords(document) == tokenize(ToLowerCase(document.content))

\* indexDocument as it would be if the forEach skipped the first word
indexDocumentSkipFirst(idx, document) ==
    IndexWords(idx, document.id, ContentWords(document), 2)

indexDocument(idx, document) ==
    IndexWords(idx, document.id, ContentWords(document), 1)

\* ------------------------------------------------------------------ removeDocument

\* The forEach as it would be without the pruning of emptied words
RemoveFromIndexNoPrune(idx, id) ==
    [w \in DOMAIN idx |-> DocMapDelete(idx[w], id)]

\* The forEach over the index as it would be if it deleted every word the
\* id is posted under
RemoveFromIndexDropWords(idx, id) ==
    [w \in {x \in DOMAIN idx : ~DocMapHas(idx[x], id)} |-> idx[w]]

\* The forEach over the index: drop the id from every posting map and drop
\* every word whose posting map is then empty.
RemoveFromIndex(idx, id) ==
    [w \in {x \in DOMAIN idx : Len(DocMapDelete(idx[x], id)) > 0} |->
        DocMapDelete(idx[w], id)]

\* removeDocument as it would be without its lookup of the id
removeDocumentNoCheck(docs, idx, id) ==
    [ret |-> TRUE,
     documents |-> DocumentsDelete(docs, id),
     invertedIndex |-> RemoveFromIndex(idx, id)]

\* removeDocument as it would be if it left the index alone
removeDocumentStoreOnly(docs, idx, id) ==
    IF id \notin StoredIds(docs)
    THEN [ret |-> FALSE, documents |-> docs, invertedIndex |-> idx]
    ELSE [ret |-> TRUE,
          documents |-> DocumentsDelete(docs, id),
          invertedIndex |-> idx]

removeDocument(docs, idx, id) ==
    IF id \notin StoredIds(docs)
    THEN [ret |-> FALSE, documents |-> docs, invertedIndex |-> idx]
    ELSE [ret |-> TRUE,
          documents |-> DocumentsDelete(docs, id),
          invertedIndex |-> RemoveFromIndex(idx, id)]

\* ------------------------------------------------------------------ getIndexStats

RECURSIVE SumLengths(_)
SumLengths(docMap) ==
    IF docMap = <<>> THEN 0
    ELSE Len(Head(docMap).positions) + SumLengths(Tail(docMap))

RECURSIVE SumOver(_, _)
SumOver(idx, words) ==
    IF words = {} THEN 0
    ELSE LET w == CHOOSE x \in words : TRUE
         IN  SumLengths(idx[w]) + SumOver(idx, words \ {w})

getIndexStats(docs, idx) ==
    [documentCount |-> Len(docs),
     uniqueWords |-> Cardinality(DOMAIN idx),
     totalWords |-> SumOver(idx, DOMAIN idx)]

\* ------------------------------------------------------------------ extractSnippets

\* content.split(/[.!?]+/)
SplitSentences(content) == SplitFrom({".", "!", "?"}, content, 1, <<>>, <<>>)

\* The filter on the sentences as it would be without the length test
LongEnoughAlways(s) == TRUE

\* .filter(s => s.trim().length > 10)
LongEnough(s) == Len(Trim(s)) > 10

\* String.prototype.includes
Includes(s, sub) ==
    \E i \in 0..(Len(s) - Len(sub)) : SubSeq(s, i + 1, i + Len(sub)) = sub

\* queryWords.forEach(word => { if (lowerSentence.includes(word)) matches++ })
RECURSIVE CountMatches(_, _)
CountMatches(lowerSentence, queryWords) ==
    IF queryWords = <<>> THEN 0
    ELSE (IF Includes(lowerSentence, Head(queryWords)) THEN 1 ELSE 0)
         + CountMatches(lowerSentence, Tail(queryWords))

\* escapeRegex: the pattern /[.*+?^${}()|[\\]\\\\]/g is the class
\* [.*+?^${}()|[\] followed by two backslashes and a closing bracket; each
\* match gets two backslashes in front of it.
EscapeClass == {".", "*", "+", "?", "^", "$", "{", "}", "(", ")", "|", "[", "\\"}

RECURSIVE EscapeFrom(_, _)
EscapeFrom(s, i) ==
    IF i > Len(s) THEN <<>>
    ELSE IF /\ i + 3 <= Len(s)
            /\ s[i] \in EscapeClass
            /\ s[i + 1] = "\\" /\ s[i + 2] = "\\" /\ s[i + 3] = "]"
         THEN <<"\\", "\\">> \o SubSeq(s, i, i + 3) \o EscapeFrom(s, i + 4)
         ELSE <<s[i]>> \o EscapeFrom(s, i + 1)

escapeRegex(string) == EscapeFrom(string, 1)

\* The text new RegExp(`\\\\b${escapeRegex(word)}\\\\b`, 'gi') matches: the
\* template yields the pattern source \\bword\\b, in which \\ is a literal
\* backslash and b a literal letter (word is alphanumeric, as tokenize
\* leaves it).
HighlightPattern(word) == <<"\\", "b">> \o escapeRegex(word) \o <<"\\", "b">>

\* .replace(regex, `**$&**`) for a literal pattern under the flags g and i:
\* from position i the text is copied up to the next match, the match is
\* wrapped, and the scan resumes behind it.
RECURSIVE ReplaceFrom(_, _, _)
ReplaceFrom(s, pattern, i) ==
    LET n == Len(pattern)
        found == {k \in i..(Len(s) - n + 1) :
                    ToLowerCase(SubSeq(s, k, k + n - 1)) = ToLowerCase(pattern)}
    IN  IF n = 0 \/ found = {} THEN SubSeq(s, i, Len(s))
        ELSE LET m == Least(found)
             IN  SubSeq(s, i, m - 1)
                 \o <<"*", "*">> \o SubSeq(s, m, m + n - 1) \o <<"*", "*">>
                 \o ReplaceFrom(s, pattern, m + n)

RECURSIVE HighlightAll(_, _)
HighlightAll(sentence, queryWords) ==
    IF queryWords = <<>> THEN sentence
    ELSE HighlightAll(ReplaceFrom(sentence, HighlightPattern(Head(queryWords)), 1),
                      Tail(queryWords))

\* The for loop over the sentences as it would be without its break
RECURSIVE ScanSentencesNoBreak(_, _, _, _)
ScanSentencesNoBreak(sentences, queryWords, maxSnippets, snippets) ==
    IF sentences = <<>> THEN snippets
    ELSE LET sentence == Head(sentences)
             matches == CountMatches(ToLowerCase(sentence), queryWords)
             pushed == IF matches > 0
                       THEN Append(snippets,
                                   [text |-> HighlightAll(Trim(sentence), queryWords),
                                    matches |-> matches])
                       ELSE snippets
         IN  ScanSentencesNoBreak(Tail(sentences), queryWords, maxSnippets, pushed)

\* The for loop over the sentences, with its break
RECURSIVE ScanSentences(_, _, _, _)
ScanSentences(sentences, queryWords, maxSnippets, snippets) ==
    IF sentences = <<>> THEN snippets
    ELSE LET sentence == Head(sentences)
             matches == CountMatches(ToLowerCase(sentence), queryWords)
             pushed == IF matches > 0
                       THEN Append(snippets,
                                   [text |-> HighlightAll(Trim(sentence), queryWords),
                                    matches |-> matches])
                       ELSE snippets
         IN  IF Len(pushed) >= maxSnippets THEN pushed
             ELSE ScanSentences(Tail(sentences), queryWords, maxSnippets, pushed)

\* Array.prototype.sort((a, b) => b.key - a.key) on a sequence of records
\* with a key field: a stable sort, descending by key.
RECURSIVE InsertDesc(_, _)
InsertDesc(sorted, x) ==
    IF sorted = <<>> THEN <<x>>
    ELSE IF Head(sorted).key >= x.key
         THEN <<Head(sorted)>> \o InsertDesc(Tail(sorted), x)
         ELSE <<x>> \o sorted

RECURSIVE SortDesc(_)
SortDesc(seq) ==
    IF seq = <<>> THEN <<>>
    ELSE InsertDesc(SortDesc(SubSeq(seq, 1, Len(seq) - 1)), seq[Len(seq)])

\* Array.prototype.slice(0, end)
SliceTo(seq, end) ==
    LET stop == IF end < 0 THEN (IF Len(seq) + end < 0 THEN 0 ELSE Len(seq) + end)
                ELSE (IF end > Len(seq) THEN Len(seq) ELSE end)
    IN  SubSeq(seq, 1, stop)

\* Number of snippets search asks for
SnippetsPerResult == 3

extractSnippets(content, queryWords, maxSnippets) ==
    LET sentences == SelectSeq(SplitSentences(content), LongEnough)
        snippets == ScanSentences(sentences, queryWords, maxSnippets, <<>>)
        keyed == [i \in 1..Len(snippets) |->
                    [key |-> snippets[i].matches, val |-> snippets[i].text]]
        top == SliceTo(SortDesc(keyed), maxSnippets)
    IN  [i \in 1..Len(top) |-> top[i].val]

\* ------------------------------------------------------------------ search

ScoresHas(scores, id) == \E i \in 1..Len(scores) : scores[i].docId = id

\* Set.prototype.add on a Set kept in insertion order
SetAdd(seq, x) == IF x \in Range(seq) THEN seq ELSE Append(seq, x)

\* One round of docMap.forEach((positions, docId) => ...)
ScoreEntry(scores, word, entry) ==
    LET withDoc == IF ScoresHas(scores, entry.docId)
                   THEN scores
                   ELSE Append(scores, [docId |-> entry.docId, score |-> 0,
                                        matchedTerms |-> <<>>])
    IN  [i \in 1..Len(withDoc) |->
            IF withDoc[i].docId = entry.docId
            THEN [withDoc[i] EXCEPT
                    !.matchedTerms = SetAdd(@, word),
                    !.score = @ + Len(entry.positions)]
            ELSE withDoc[i]]

RECURSIVE ScoreDocMap(_, _, _)
ScoreDocMap(scores, word, docMap) ==
    IF docMap = <<>> THEN scores
    ELSE ScoreDocMap(ScoreEntry(scores, word, Head(docMap)), word, Tail(docMap))

\* queryWords.forEach(word => ...): documentScores in insertion order
RECURSIVE ScoreWords(_, _, _)
ScoreWords(scores, idx, queryWords) ==
    IF queryWords = <<>> THEN scores
    ELSE ScoreWords(IF Head(queryWords) \in DOMAIN idx
                    THEN ScoreDocMap(scores, Head(queryWords), idx[Head(queryWords)])
                    ELSE scores,
                    idx, Tail(queryWords))

\* finalScore as it would be without the coverage boost
FinalScoreNoBoost(score, matched, nWords) ==
    [num |-> score * nWords, den |-> nWords]

\* termCoverage = matchedTerms.size / queryWords.length, as the pair num/den
\* finalScore = score * (1 + termCoverage) = score * (den + num) / den
FinalScore(score, matched, nWords) ==
    [num |-> score * (nWords + matched), den |-> nWords]

\* The relevance as it would be without Math.min
RelevanceNoCap(matched, nWords) ==
    [num |-> 80 * matched + 20 * nWords, den |-> 100 * nWords]

\* Math.min(0.95, termCoverage * 0.8 + 0.2), in hundredths over nWords
Relevance(matched, nWords) ==
    LET raw == 80 * matched + 20 * nWords
        cap == 95 * nWords
    IN  [num |-> IF cap < raw THEN cap ELSE raw, den |-> 100 * nWords]

\* The body of the map as it would be with termCoverage taken over the
\* distinct query words
ResultOfDistinctCoverage(docs, scoreData, queryWords) ==
    LET document == DocumentsGet(docs, scoreData.docId)
        finalScore == FinalScore(scoreData.score, Len(scoreData.matchedTerms),
                                 Cardinality(Range(queryWords)))
    IN  [document |-> [id |-> document.id, filename |-> document.filename,
                       uploadedAt |-> document.uploadedAt],
         score |-> finalScore,
         relevance |-> Relevance(Len(scoreData.matchedTerms), Len(queryWords)),
         matchedTerms |-> scoreData.matchedTerms,
         snippets |-> extractSnippets(document.content, queryWords, SnippetsPerResult)]

\* The body of .map(([docId, scoreData]) => ...)
ResultOf(docs, scoreData, queryWords) ==
    LET document == DocumentsGet(docs, scoreData.docId)
        finalScore == FinalScore(scoreData.score, Len(scoreData.matchedTerms),
                                 Len(queryWords))
    IN  [document |-> [id |-> document.id, filename |-> document.filename,
                       uploadedAt |-> document.uploadedAt],
         score |-> finalScore,
         relevance |-> Relevance(Len(scoreData.matchedTerms), Len(queryWords)),
         matchedTerms |-> scoreData.matchedTerms,
         snippets |-> extractSnippets(document.content, queryWords, SnippetsPerResult)]

\* .sort((a, b) => b.score - a.score).slice(0, limit); every score of one
\* search has the same denominator, so the numerators order them.
RankAndCut(results, limit) ==
    LET keyed == [i \in 1..Len(results) |->
                    [key |-> results[i].score.num, val |-> results[i]]]
        top == SliceTo(SortDesc(keyed), limit)
    IN  [i \in 1..Len(top) |-> top[i].val]

\* The query's words as they would be without toLowerCase
QueryWordsAsTyped(query) == tokenize(query)

\* const queryWords = this.tokenize(query.toLowerCase())
QueryWords(query) == tokenize(ToLowerCase(query))

\* search(query, limit): threw is TRUE when a scored id has no document
\* (document.content of undefined).
search(docs, idx, query, limit) ==
    IF Len(query) = 0 \/ Len(Trim(query)) = 0
    THEN [threw |-> FALSE, results |-> <<>>]
    ELSE LET queryWords == QueryWords(query)
         IN  IF Len(queryWords) = 0
             THEN [threw |-> FALSE, results |-> <<>>]
             ELSE LET scores == ScoreWords(<<>>, idx, queryWords)
                  IN  IF \E i \in 1..Len(scores) : scores[i].docId \notin StoredIds(docs)
                      THEN [threw |-> TRUE, results |-> <<>>]
                      ELSE [threw |-> FALSE,
                            results |-> RankAndCut(
                                [i \in 1..Len(scores) |->
                                    ResultOf(docs, scores[i], queryWords)],
                                limit)]

\* ------------------------------------------------------------------ the engine's calls

\* A call as lastOp records it: its name and arguments and what it returned.
\* before is getIndexStats() as it was before the call. For addDocument,
\* fresh says that the id was not stored before the call. For removeDocument,
\* afterAdd says that the call before it was addDocument of the same id,
\* fresh is that call's, and beforeAdd is getIndexStats() as it was before
\* that call.
NoOp == [op |-> "new", id |-> "", document |-> NoDocument, query |-> <<>>,
         limit |-> 0, ret |-> FALSE, threw |-> FALSE, results |-> <<>>,
         got |-> NoDocument, all |-> <<>>,
         stats |-> getIndexStats(<<>>, <<>>),
         before |-> getIndexStats(<<>>, <<>>),
         fresh |-> FALSE,
         afterAdd |-> FALSE,
         beforeAdd |-> getIndexStats(<<>>, <<>>)]

\* No method has been called on its own
NoInput == [text |-> <<>>, content |-> <<>>, queryWords |-> <<>>, maxSnippets |-> 0]
NoOutput == [fn |-> "", tokens |-> <<>>, again |-> <<>>, snippets |-> <<>>]

Init ==
    /\ documents = <<>>
    /\ invertedIndex = <<>>
    /\ lastOp = NoOp
    /\ requests = <<>>
    /\ uuids = 0
    /\ input = NoInput
    /\ output = NoOutput

\* addDocument(document)
AddDocument(document) ==
    /\ getIndexStats(documents, invertedIndex).totalWords
         + Len(ContentWords(document)) <= MaxTotalWords
    /\ documents' = DocumentsSet(documents, document)
    /\ invertedIndex' = indexDocument(invertedIndex, document)
    /\ lastOp' = [NoOp EXCEPT !.op = "addDocument", !.id = document.id,
                              !.document = document,
                              !.fresh = document.id \notin StoredIds(documents),
                              !.before = getIndexStats(documents, invertedIndex)]
    /\ UNCHANGED <<httpVars, fnVars>>

\* removeDocument(documentId)
RemoveDocument(id) ==
    LET r == removeDocument(documents, invertedIndex, id)
        afterAdd == lastOp.op = "addDocument" /\ lastOp.id = id
    IN  /\ documents' = r.documents
        /\ invertedIndex' = r.invertedIndex
        /\ lastOp' = [NoOp EXCEPT !.op = "removeDocument", !.id = id,
                                  !.ret = r.ret,
                                  !.before = getIndexStats(documents, invertedIndex),
                                  !.afterAdd = afterAdd,
                                  !.fresh = afterAdd /\ lastOp.fresh,
                                  !.beforeAdd = IF afterAdd THEN lastOp.before
                                                ELSE NoOp.beforeAdd]
        /\ UNCHANGED <<httpVars, fnVars>>

\* search as it would be if it made an index entry for every query word it
\* looks up
SearchMakingEntries(query, limit) ==
    LET r == search(documents, invertedIndex, query, limit)
        looked == IF Len(query) = 0 \/ Len(Trim(query)) = 0 THEN {}
                  ELSE Range(QueryWords(query))
    IN  /\ lastOp' = [NoOp EXCEPT !.op = "search", !.query = query,
                                  !.limit = limit, !.threw = r.threw,
                                  !.results = r.results]
        /\ invertedIndex' = [w \in DOMAIN invertedIndex \cup looked |->
                                IF w \in DOMAIN invertedIndex THEN invertedIndex[w]
                                ELSE <<>>]
        /\ UNCHANGED <<documents, requests, uuids, fnVars>>

\* search(query, limit)
Search(query, limit) ==
    LET r == search(documents, invertedIndex, query, limit)
    IN  /\ lastOp' = [NoOp EXCEPT !.op = "search", !.query = query,
                                  !.limit = limit, !.threw = r.threw,
                                  !.results = r.results]
        /\ UNCHANGED <<documents, invertedIndex, requests, uuids, fnVars>>

\* getDocument(documentId)
GetDocument(id) ==
    /\ lastOp' = [NoOp EXCEPT !.op = "getDocument", !.id = id,
                              !.ret = id \in StoredIds(documents),
                              !.got = DocumentsGet(documents, id)]
    /\ UNCHANGED <<documents, invertedIndex, requests, uuids, fnVars>>

\* getAllDocuments()
GetAllDocuments ==
    /\ lastOp' = [NoOp EXCEPT !.op = "getAllDocuments", !.all = documents]
    /\ UNCHANGED <<documents, invertedIndex, requests, uuids, fnVars>>

\* getIndexStats()
GetIndexStats ==
    /\ lastOp' = [NoOp EXCEPT !.op = "getIndexStats",
                              !.stats = getIndexStats(documents, invertedIndex)]
    /\ UNCHANGED <<documents, invertedIndex, requests, uuids, fnVars>>

Next ==
    \/ \E document \in DocInputs : AddDocument(document)
    \/ \E id \in Ids : RemoveDocument(id)
    \/ \E query \in Queries, limit \in Limits : Search(query, limit)
    \/ \E id \in Ids : GetDocument(id)
    \/ GetAllDocuments
    \/ GetIndexStats

Spec == Init /\ [][Next]_vars

\* ------------------------------------------------------------------ the HTTP handlers

\* A handler runs from one await to the next without interruption; between
\* two awaits any other handler may run. The engine's methods contain no
\* await, so each call of one is part of a single step.

\* The document ids uuidv4() hands out, in order
UuidPool == <<"u1", "u2", "u3", "u4", "u5", "u6", "u7", "u8", "u9", "u10", "u11", "u12">>

\* An uploaded file with what documentProcessor.processFile makes of it: the
\* extracted text, or a throw (ok = FALSE), as for a .pdf.
TextFile == [originalname |-> "a.txt", ok |-> TRUE, content |-> ContentPool[1]]
MarkdownFile == [originalname |-> "b.md", ok |-> TRUE, content |-> ContentPool[2]]
PdfFile == [originalname |-> "x.pdf", ok |-> FALSE, content |-> <<>>]

\* processFile as it would be if it returned the text it has instead of
\* throwing
processFileNeverThrows(file) == [threw |-> FALSE, content |-> file.content]

\* await documentProcessor.processFile(...): the extracted text, or a throw
processFile(file) == [threw |-> ~file.ok, content |-> file.content]

\* req.files of the uploads the clients send
Batches ==
    {<<>>, <<TextFile>>, <<PdfFile, MarkdownFile>>, <<TextFile, MarkdownFile>>}

\* The queries and the ids the HTTP clients send
HttpQueries == {QueryPool[1], QueryPool[3]}
HttpIds == {UuidPool[i] : i \in 1..uuids} \cup {"unknown-id"}

\* const { query, limit = 3 } = req.body
DefaultLimit == 3

NoRequest == [kind |-> "", pc |-> "done", files |-> <<>>, next |-> 0,
              fileResults |-> <<>>, query |-> <<>>, id |-> "",
              status |-> 0, message |-> "", results |-> <<>>,
              totalDocuments |-> 0]

Awaiting(r) == r \in 1..Len(requests) /\ requests[r].pc = "awaiting"

\* app.post('/api/upload'): up to the first await
UploadBegin(files) ==
    /\ Len(requests) < MaxRequests
    /\ requests' = Append(requests,
          IF Len(files) = 0
          THEN [NoRequest EXCEPT !.kind = "upload", !.status = 400,
                                 !.message = "No files uploaded"]
          ELSE [NoRequest EXCEPT !.kind = "upload", !.pc = "awaiting",
                                 !.files = files, !.next = 1])
    /\ UNCHANGED <<documents, invertedIndex, lastOp, uuids, fnVars>>

\* The upload handler from the end of one await of processFile to the next
\* await, or to res.json after the last file
UploadResume(r) ==
    /\ Awaiting(r) /\ requests[r].kind = "upload"
    /\ LET req == requests[r]
           file == req.files[req.next]
           processed == processFile(file)
           documentId == UuidPool[uuids + 1]
           document == [id |-> documentId, filename |-> file.originalname,
                        content |-> processed.content, uploadedAt |-> uuids + 1]
           docs == IF ~processed.threw THEN DocumentsSet(documents, document)
                   ELSE documents
           fileResult == IF ~processed.threw
                         THEN [id |-> documentId, filename |-> file.originalname,
                               status |-> "completed"]
                         ELSE [id |-> "", filename |-> file.originalname,
                               status |-> "error"]
           pushed == [req EXCEPT !.fileResults = Append(@, fileResult)]
       IN  /\ documents' = docs
           /\ invertedIndex' = IF ~processed.threw
                               THEN indexDocument(invertedIndex, document)
                               ELSE invertedIndex
           /\ uuids' = IF ~processed.threw THEN uuids + 1 ELSE uuids
           /\ requests' = [requests EXCEPT ![r] =
                 IF req.next < Len(req.files)
                 THEN [pushed EXCEPT !.next = @ + 1]
                 ELSE [pushed EXCEPT !.pc = "done", !.status = 200,
                                     !.message = "Files processed",
                                     !.totalDocuments = Len(docs)]]
    /\ UNCHANGED <<lastOp, fnVars>>

\* app.post('/api/query'): the whole handler, which has no await
Query(query) ==
    /\ Len(requests) < MaxRequests
    /\ LET r == search(documents, invertedIndex, query, DefaultLimit)
       IN  requests' = Append(requests,
              IF Len(query) = 0 \/ Len(Trim(query)) = 0
              THEN [NoRequest EXCEPT !.kind = "query", !.query = query,
                                     !.status = 400, !.message = "Query is required"]
              ELSE IF r.threw
              THEN [NoRequest EXCEPT !.kind = "query", !.query = query,
                                     !.status = 500, !.message = "Query failed"]
              ELSE [NoRequest EXCEPT !.kind = "query", !.query = query,
                                     !.status = 200, !.results = r.results,
                                     !.totalDocuments = Len(documents)])
    /\ UNCHANGED <<documents, invertedIndex, lastOp, uuids, fnVars>>

\* app.delete('/api/documents/:id'): up to the await of fs.remove
DeleteBegin(id) ==
    /\ Len(requests) < MaxRequests
    /\ requests' = Append(requests,
          IF id \notin StoredIds(documents)
          THEN [NoRequest EXCEPT !.kind = "delete", !.id = id, !.status = 404,
                                 !.message = "Document not found"]
          ELSE [NoRequest EXCEPT !.kind = "delete", !.id = id, !.pc = "awaiting"])
    /\ UNCHANGED <<documents, invertedIndex, lastOp, uuids, fnVars>>

\* The delete handler after fs.remove: removeDocument, then res.json
DeleteResume(r) ==
    /\ Awaiting(r) /\ requests[r].kind = "delete"
    /\ LET removed == removeDocument(documents, invertedIndex, requests[r].id)
       IN  /\ documents' = removed.documents
           /\ invertedIndex' = removed.invertedIndex
           /\ requests' = [requests EXCEPT ![r] =
                 [@ EXCEPT !.pc = "done", !.status = 200,
                           !.message = "Document deleted successfully",
                           !.totalDocuments = Len(removed.documents)]]
    /\ UNCHANGED <<lastOp, uuids, fnVars>>

HttpNext ==
    \/ \E files \in Batches : UploadBegin(files)
    \/ \E r \in 1..MaxRequests : UploadResume(r)
    \/ \E query \in HttpQueries : Query(query)
    \/ \E id \in HttpIds : DeleteBegin(id)
    \/ \E r \in 1..MaxRequests : DeleteResume(r)

SpecHttp == Init /\ [][HttpNext]_vars


\* ------------------------------------------------------------------ ranking inputs

\* The engine under documents and queries that tell the scores of two
\* documents apart: the same calls as in Spec, with other arguments.

\* Document contents handed to addDocument
RankContentPool ==
    << <<"D", "o", "g", "-", "b", "i", "r", "d", ",", " ", "o", "k">>,   \* 'Dog-bird, ok'
       <<"B", "i", "r", "d", " ", "b", "i", "r", "d", ".">>,   \* 'Bird bird.'
       <<"C", "a", "t", " ", "d", "o", "g", " ", "c", "a", "t", ".">> >>   \* 'Cat dog cat.'

\* Query strings handed to search
RankQueryPool ==
    << <<"d", "o", "g", " ", "b", "i", "r", "d">>,   \* 'dog bird'
       <<"B", "i", "r", "d", " ", "b", "i", "r", "d", " ", "d", "o", "g">>,   \* 'Bird bird dog'
       <<"c", "a", "t">> >>   \* 'cat'

RankDocInputs ==
    {[id |-> i, filename |-> FilenamePool[k], content |-> RankContentPool[k],
      uploadedAt |-> k] : i \in Ids, k \in 1..Len(RankContentPool)}

RankQueries == {RankQueryPool[k] : k \in 1..Len(RankQueryPool)}

RankNext ==
    \/ \E document \in RankDocInputs : AddDocument(document)
    \/ \E id \in Ids : RemoveDocument(id)
    \/ \E query \in RankQueries, limit \in Limits : Search(query, limit)

SpecRank == Init /\ [][RankNext]_vars

\* ------------------------------------------------------------------ tokenize on its own

\* Longest text handed to tokenize
MaxTextLen == 7

\* The characters of the texts: a small and a capital letter, a blank and a
\* punctuation mark
TextChars == {"a", "B", " ", "-"}

Texts == UNION {[1..n -> TextChars] : n \in 0..MaxTextLen}

\* Array.prototype.join(sep)
RECURSIVE Join(_, _)
Join(words, sep) ==
    IF words = <<>> THEN <<>>
    ELSE IF Len(words) = 1 THEN words[1]
    ELSE words[1] \o sep \o Join(Tail(words), sep)

InitTokenize ==
    /\ documents = <<>>
    /\ invertedIndex = <<>>
    /\ lastOp = NoOp
    /\ requests = <<>>
    /\ uuids = 0
    /\ input \in {[NoInput EXCEPT !.text = t] : t \in Texts}
    /\ output = NoOutput

\* tokenize(text)
Tokenize ==
    /\ output.fn = ""
    /\ output' = [NoOutput EXCEPT !.fn = "tokenize", !.tokens = tokenize(input.text)]
    /\ UNCHANGED <<documents, invertedIndex, lastOp, requests, uuids, input>>

\* tokenize(tokens.join(' ')) for the tokens the first call returned
Retokenize ==
    /\ output.fn = "tokenize"
    /\ output' = [output EXCEPT !.fn = "retokenize",
                                !.again = tokenize(Join(output.tokens, <<" ">>))]
    /\ UNCHANGED <<documents, invertedIndex, lastOp, requests, uuids, input>>

TokenizeNext ==
    \/ Tokenize
    \/ Retokenize

SpecTokenize == InitTokenize /\ [][TokenizeNext]_vars

\* ------------------------------------------------------------------ extractSnippets on its own

\* Document contents handed to extractSnippets
SnippetContentPool ==
    << <<"E", "m", "p", "l", "o", "y", "e", "e", "s", " ", "r", "e", "c", "e", "i", "v", "e", " ", "1", "5", " ", "v", "a", "c", "a", "t", "i", "o", "n", " ", "d", "a", "y", "s", " ", "p", "e", "r", " ", "y", "e", "a", "r", ".", " ", "V", "a", "c", "a", "t", "i", "o", "n", " ", "r", "e", "q", "u", "e", "s", "t", "s", " ", "n", "e", "e", "d", " ", "m", "a", "n", "a", "g", "e", "r", " ", "a", "p", "p", "r", "o", "v", "a", "l", ".">>,   \* 'Employees receive 15 vacation days per year. Vacation requests need manager approval.'
       <<"B", "u", "d", "g", "e", "t", "i", "n", "g", " ", "i", "s", " ", "h", "a", "r", "d", " ", "w", "o", "r", "k", ".">>,   \* 'Budgeting is hard work.'
       <<"T", "h", "e", " ", "\\", "b", "c", "a", "t", "\\", "b", "s", " ", "s", "a", "t", " ", "d", "o", "w", "n", ".">>,   \* 'The \\bcat\\bs sat down.'
       <<"C", "a", "t", " ", "d", "o", "g", " ", "c", "a", "t", ".">>,   \* 'Cat dog cat.'
       <<"D", "o", "g", "s", " ", "b", "a", "r", "k", " ", "l", "o", "u", "d", "l", "y", " ", "h", "e", "r", "e", "!", " ", "A", " ", "c", "a", "t", " ", "a", "n", "d", " ", "a", " ", "d", "o", "g", " ", "p", "l", "a", "y", ".", " ", "S", "h", "o", "r", "t", ".">>,   \* 'Dogs bark loudly here! A cat and a dog play. Short.'
       <<"C", "a", "t", ".", " ", "D", "o", "g", ".", " ", "B", "i", "r", "d", ".">> >>   \* 'Cat. Dog. Bird.'

\* The queries whose words are handed to extractSnippets
SnippetQueryPool ==
    << <<"v", "a", "c", "a", "t", "i", "o", "n", " ", "d", "a", "y", "s">>,   \* 'vacation days'
       <<"b", "u", "d", "g", "e", "t", " ", "h", "a", "r", "d">>,   \* 'budget hard'
       <<"c", "a", "t", " ", "s", "a", "t">>,   \* 'cat sat'
       <<"D", "o", "g", " ", "C", "A", "T">>,   \* 'Dog CAT'
       <<"d", "o", "g">>,   \* 'dog'
       <<"f", "i", "s", "h">>,   \* 'fish'
       <<"m", "a", "n", "a", "g", "e", "r">>,   \* 'manager'
       <<"w", "o", "r", "k">>,   \* 'work'
       <<"s", "a", "t", " ", "d", "o", "w", "n">>,   \* 'sat down'
       <<"b", "a", "r", "k", " ", "p", "l", "a", "y", " ", "c", "a", "t">>,   \* 'bark play cat'
       <<"y", "e", "a", "r", " ", "r", "e", "q", "u", "e", "s", "t", "s">>,   \* 'year requests'
       <<"t", "h", "e", " ", "d", "o", "w", "n">>,   \* 'the down'
       <<"c", "a", "t", " ", "c", "a", "t", " ", "b", "a", "r", "k">> >>   \* 'cat cat bark'

\* search calls extractSnippets(document.content, queryWords, 3) for the
\* documents some query word is posted for; the method takes any number of
\* snippets up to that.
SnippetInputs ==
    {in \in {[NoInput EXCEPT !.content = SnippetContentPool[c],
                             !.queryWords = QueryWords(SnippetQueryPool[q]),
                             !.maxSnippets = n] :
                c \in 1..Len(SnippetContentPool), q \in 1..Len(SnippetQueryPool),
                n \in 1..SnippetsPerResult} :
        Range(in.queryWords) \cap Range(tokenize(ToLowerCase(in.content))) # {}}

InitSnippets ==
    /\ documents = <<>>
    /\ invertedIndex = <<>>
    /\ lastOp = NoOp
    /\ requests = <<>>
    /\ uuids = 0
    /\ input \in SnippetInputs
    /\ output = NoOutput

\* extractSnippets(content, queryWords, maxSnippets)
ExtractSnippets ==
    /\ output.fn = ""
    /\ output' = [NoOutput EXCEPT !.fn = "extractSnippets",
                      !.snippets = extractSnippets(input.content, input.queryWords,
                                                   input.maxSnippets)]
    /\ UNCHANGED <<documents, invertedIndex, lastOp, requests, uuids, input>>

SnippetsNext == ExtractSnippets

SpecSnippets == InitSnippets /\ [][SnippetsNext]_vars

\* ------------------------------------------------------------------ properties

Stats == getIndexStats(documents, invertedIndex)

\* The words of the stored documents
LiveWords == UNION {Range(ContentWords(documents[i])) : i \in 1..Len(documents)}

\* The ids with a posting somewhere in the index
PostedIds == UNION {DocMapIds(invertedIndex[w]) : w \in DOMAIN invertedIndex}

\* C1: a word is a key of the index exactly when some stored document's
\* words contain it, and an id is in a word's posting map exactly when that
\* id is stored and its document's words contain the word.
C1_IndexTracksStoredContent ==
    /\ DOMAIN invertedIndex = LiveWords
    /\ \A w \in DOMAIN invertedIndex \cup LiveWords : \A id \in Ids \cup PostedIds :
          (w \in DOMAIN invertedIndex /\ DocMapHas(invertedIndex[w], id))
          <=> (/\ id \in StoredIds(documents)
               /\ w \in Range(ContentWords(DocumentsGet(documents, id))))

\* C2 as stated: removeDocument(D.id) right after addDocument(D) leaves
\* getIndexStats() as it was before the addDocument, for every D.
C2_AddThenRemoveRestoresStats ==
    (lastOp.op = "removeDocument" /\ lastOp.afterAdd) => Stats = lastOp.beforeAdd

\* C2 amended: removeDocument(D.id) right after addDocument(D), for a D whose
\* id was not stored before the addDocument, leaves getIndexStats() as it was
\* before the addDocument.
C2_FreshAddThenRemoveRestoresStats ==
    (lastOp.op = "removeDocument" /\ lastOp.afterAdd /\ lastOp.fresh)
        => Stats = lastOp.beforeAdd

\* C2 witness: a document with words, some of them shared with a document
\* that stays, was added under a new id and removed again.
C2_Witness ==
    /\ lastOp.op = "removeDocument" /\ lastOp.afterAdd /\ lastOp.fresh
    /\ lastOp.ret
    /\ lastOp.beforeAdd.totalWords > 0
    /\ lastOp.before.totalWords > lastOp.beforeAdd.totalWords
    /\ lastOp.before.uniqueWords > lastOp.beforeAdd.uniqueWords
    /\ lastOp.before.uniqueWords - lastOp.beforeAdd.uniqueWords
         < lastOp.before.totalWords - lastOp.beforeAdd.totalWords

\* C3: removeDocument of an id that is not stored returns false and leaves
\* the store, the index and getIndexStats() as they were, without throwing.
C3_RemoveUnknownIsNoOp ==
    [][(lastOp'.op = "removeDocument" /\ lastOp'.id \notin StoredIds(documents))
        => /\ lastOp'.ret = FALSE
           /\ lastOp'.threw = FALSE
           /\ documents' = documents
           /\ invertedIndex' = invertedIndex
           /\ getIndexStats(documents', invertedIndex') = Stats]_vars

\* C3 witness: removeDocument returned false while documents were indexed.
C3_Witness ==
    /\ lastOp.op = "removeDocument" /\ lastOp.ret = FALSE
    /\ Stats.documentCount > 0 /\ Stats.totalWords > 0

\* The ids of the results of a search
ResultIds(r) == {r.results[i].document.id : i \in 1..Len(r.results)}

\* C4: once removeDocument(id) has returned true, the id is not stored, no
\* posting map holds it, no word is left with an empty posting map, and no
\* search returns it, for as long as it is not added again.
C4_RemovedIsGone ==
    /\ (lastOp.op = "removeDocument" /\ lastOp.ret)
          => lastOp.id \notin StoredIds(documents)
    /\ \A w \in DOMAIN invertedIndex : Len(invertedIndex[w]) > 0
    /\ \A id \in Ids \ StoredIds(documents) :
          /\ id \notin PostedIds
          /\ \A query \in Queries, limit \in Limits :
                id \notin ResultIds(search(documents, invertedIndex, query, limit))

\* C4 witness: removeDocument returned true, took words out of the index and
\* left another document's words in it.
C4_Witness ==
    /\ lastOp.op = "removeDocument" /\ lastOp.ret
    /\ Stats.uniqueWords < lastOp.before.uniqueWords
    /\ Stats.uniqueWords > 0

\* The posting of (word, id) in an index: its positions, or none
PostingOf(idx, w, id) ==
    IF w \in DOMAIN idx /\ DocMapHas(idx[w], id) THEN DocMapGet(idx[w], id) ELSE <<>>

\* C5: in every state a handler can run in, and so in every state a search
\* reads, each id either is stored with exactly the postings of its content
\* or is not stored and has no posting.
C5_SearchSeesWholeDocuments ==
    /\ PostedIds \subseteq StoredIds(documents)
    /\ \A i \in 1..Len(documents) :
          LET whole == indexDocument(<<>>, documents[i])
          IN  \A w \in DOMAIN invertedIndex \cup DOMAIN whole :
                  PostingOf(invertedIndex, w, documents[i].id)
                      = PostingOf(whole, w, documents[i].id)

\* C5 witness: a query was answered with results while an upload had added
\* one file and awaited the next and a delete awaited its file removal.
C5_Witness ==
    /\ \E r \in 1..Len(requests) :
          /\ requests[r].kind = "upload" /\ requests[r].pc = "awaiting"
          /\ Len(requests[r].fileResults) > 0
    /\ \E r \in 1..Len(requests) :
          requests[r].kind = "delete" /\ requests[r].pc = "awaiting"
    /\ \E r \in 1..Len(requests) :
          /\ requests[r].kind = "query" /\ requests[r].status = 200
          /\ Len(requests[r].results) > 0

\* Whether a search for the one word t, with the number of stored documents
\* as its limit, returns the id
Searchable(docs, idx, id, t) == id \in ResultIds(search(docs, idx, t, Len(docs)))

\* C6: every word of a stored document's content finds the document, from the
\* addDocument on, and what a search for a word finds it keeps finding until
\* removeDocument of that id.
C6_AddedIsSearchable ==
    /\ [](\A i \in 1..Len(documents) : \A t \in Range(ContentWords(documents[i])) :
            Searchable(documents, invertedIndex, documents[i].id, t))
    /\ [][(documents' # documents \/ invertedIndex' # invertedIndex) =>
            \A id \in Ids : \A t \in DOMAIN invertedIndex :
                (/\ Searchable(documents, invertedIndex, id, t)
                 /\ ~(lastOp'.op = "removeDocument" /\ lastOp'.id = id))
                => Searchable(documents', invertedIndex', id, t)]_vars

\* C6 witness: a document with several words was just added beside another.
C6_Witness ==
    /\ lastOp.op = "addDocument"
    /\ Len(documents) > 1
    /\ Cardinality(Range(ContentWords(lastOp.document))) > 1

\* No three letters or digits in a row: the query is empty, blank, or made
\* of punctuation and words of at most two characters.
NoLongWord(query) ==
    ~\E i \in 1..(Len(query) - 2) :
        IsAlnum(query[i]) /\ IsAlnum(query[i + 1]) /\ IsAlnum(query[i + 2])

\* C7: a search whose query has no word longer than two characters returns
\* no result, does not throw and leaves the store and the index alone.
C7_WordlessQueryIsEmpty ==
    [][(lastOp'.op = "search" /\ NoLongWord(lastOp'.query))
        => /\ lastOp'.results = <<>>
           /\ lastOp'.threw = FALSE
           /\ UNCHANGED <<documents, invertedIndex>>]_vars

\* C7 witness: a search for a short word that a stored document contains
\* returned nothing.
C7_Witness ==
    /\ lastOp.op = "search" /\ NoLongWord(lastOp.query)
    /\ lastOp.results = <<>>
    /\ \E i \in 1..Len(documents) :
          Includes(ToLowerCase(documents[i].content), <<"o", "k">>)
          /\ Includes(lastOp.query, <<"o", "k">>)

\* C8: a search none of whose query words occurs in a stored document
\* returns no result, whatever the limit.
C8_NoMatchingWordIsEmpty ==
    \A query \in Queries, limit \in Limits :
        Range(tokenize(ToLowerCase(query))) \cap LiveWords = {}
        => search(documents, invertedIndex, query, limit).results = <<>>

\* The stored documents with at least one of the query's words
MatchingIds(query) ==
    {documents[i].id : i \in
        {j \in 1..Len(documents) :
            Range(ContentWords(documents[j])) \cap Range(tokenize(ToLowerCase(query))) # {}}}

\* C9: for a limit >= 0 the results are in descending order of score, there
\* are min(limit, number of stored documents with a query word) of them, and
\* no matching document left out scores more than one returned.
C9_RankedAndCut ==
    \A query \in Queries, limit \in Limits :
        limit >= 0 =>
            LET r == search(documents, invertedIndex, query, limit).results
                full == search(documents, invertedIndex, query, Len(documents)).results
                n == Cardinality(MatchingIds(query))
            IN  /\ Len(r) = IF limit < n THEN limit ELSE n
                /\ \A i, j \in 1..Len(r) : i < j => r[i].score.num >= r[j].score.num
                /\ \A k \in 1..Len(full) :
                      full[k].document.id \notin {r[i].document.id : i \in 1..Len(r)}
                      => \A i \in 1..Len(r) : full[k].score.num <= r[i].score.num

\* C10: every result with a matched term has 0.2 <= relevance <= 0.95.
C10_RelevanceBounded ==
    \A query \in Queries, limit \in Limits :
        LET r == search(documents, invertedIndex, query, limit).results
        IN  \A i \in 1..Len(r) :
                Len(r[i].matchedTerms) > 0
                => /\ 20 * r[i].relevance.den <= 100 * r[i].relevance.num
                   /\ 100 * r[i].relevance.num <= 95 * r[i].relevance.den

\* C10 witness: a search returned one result at the cap of 0.95 and one
\* below it.
C10_Witness ==
    /\ lastOp.op = "search"
    /\ \E i, j \in 1..Len(lastOp.results) :
          /\ 100 * lastOp.results[i].relevance.num = 95 * lastOp.results[i].relevance.den
          /\ 100 * lastOp.results[j].relevance.num < 95 * lastOp.results[j].relevance.den
          /\ Len(lastOp.results[j].matchedTerms) > 0

\* ------------------------------------------------------------------ scores

\* The raw term-frequency score search accumulates for a document before the
\* coverage boost, 0 for a document no query word is posted for
RawScore(idx, queryWords, id) ==
    LET scores == ScoreWords(<<>>, idx, queryWords)
    IN  IF ScoresHas(scores, id)
        THEN (CHOOSE e \in Range(scores) : e.docId = id).score
        ELSE 0

\* Every result of search(query) before the cut to limit
AllResults(query) == search(documents, invertedIndex, query, Len(documents)).results

\* Two results of one search with the same raw score, the first matching
\* more distinct query terms than the second
EqualRawMoreTerms(query, a, b) ==
    /\ RawScore(invertedIndex, QueryWords(query), a.document.id)
         = RawScore(invertedIndex, QueryWords(query), b.document.id)
    /\ Cardinality(Range(a.matchedTerms)) > Cardinality(Range(b.matchedTerms))

UpperOf == [c \in Range(LowerLetters) |->
              UpperLetters[CHOOSE i \in 1..Len(LowerLetters) : LowerLetters[i] = c]]

ToUpperChar(c) == IF c \in DOMAIN UpperOf THEN UpperOf[c] ELSE c

ToUpperCase(s) == [i \in 1..Len(s) |-> ToUpperChar(s[i])]

\* s with every second character in capitals, from the first or the second on
AlternateCase(s, first) ==
    [i \in 1..Len(s) |-> IF i % 2 = first THEN ToUpperChar(s[i]) ELSE ToLowerChar(s[i])]

\* Some spellings of a query that differ in the case of its letters only
Recasings(query) ==
    {ToUpperCase(query), ToLowerCase(query),
     AlternateCase(query, 0), AlternateCase(query, 1)}

\* C12: search of a query and search of a re-casing of it return the same
\* results, with the same scores, matched terms and snippets, for every
\* index state, query and limit.
C12_QueryCaseInsensitive ==
    \A query \in RankQueries, limit \in Limits :
        \A recased \in Recasings(query) :
            search(documents, invertedIndex, recased, limit)
                = search(documents, invertedIndex, query, limit)

\* C12 witness: a search of a query with capitals returned a result with
\* matched terms and a snippet, and a re-casing of the query is another string.
C12_Witness ==
    /\ lastOp.op = "search"
    /\ ToLowerCase(lastOp.query) # lastOp.query
    /\ ToUpperCase(lastOp.query) # lastOp.query
    /\ \E i \in 1..Len(lastOp.results) :
          /\ Len(lastOp.results[i].matchedTerms) > 1
          /\ Len(lastOp.results[i].snippets) > 0

\* ------------------------------------------------------------------ highlighting

\* \w
IsWordChar(c) == IsAlnum(c) \/ c = "_"

\* word stands at position i of s as a whole word, in any case
WholeWordAt(s, word, i) ==
    /\ i + Len(word) - 1 <= Len(s)
    /\ ToLowerCase(SubSeq(s, i, i + Len(word) - 1)) = word
    /\ i = 1 \/ ~IsWordChar(s[i - 1])
    /\ i + Len(word) > Len(s) \/ ~IsWordChar(s[i + Len(word)])

\* The Len(word) characters at position i of s stand between two ** markers
WrappedAt(s, word, i) ==
    /\ i >= 3 /\ s[i - 2] = "*" /\ s[i - 1] = "*"
    /\ i + Len(word) + 1 <= Len(s)
    /\ s[i + Len(word)] = "*" /\ s[i + Len(word) + 1] = "*"

Marked(word) == <<"*", "*">> \o word \o <<"*", "*">>

\* C13: in every snippet extractSnippets returns, every whole-word
\* occurrence of every query word, in any case, stands between ** markers;
\* for the two sentences about vacation days and the query words vacation
\* and days, some snippet contains **vacation** and **days**.
C13_WholeWordsHighlighted ==
    output.fn = "extractSnippets" =>
        /\ \A k \in 1..Len(output.snippets) :
              \A w \in 1..Len(input.queryWords) :
                 \A i \in 1..Len(output.snippets[k]) :
                    WholeWordAt(output.snippets[k], input.queryWords[w], i)
                    => WrappedAt(output.snippets[k], input.queryWords[w], i)
        /\ (input.content = SnippetContentPool[1]
             /\ input.queryWords = QueryWords(SnippetQueryPool[1]))
            => \E k \in 1..Len(output.snippets) :
                  \A w \in 1..Len(input.queryWords) :
                      Includes(output.snippets[k], Marked(input.queryWords[w]))

\* The first position from i on at which a ** marker stands in s, or 0
NextMarker(s, i) ==
    LET at == {j \in i..(Len(s) - 1) : s[j] = "*" /\ s[j + 1] = "*"}
    IN  IF at = {} THEN 0 ELSE CHOOSE j \in at : \A k \in at : j <= k

\* The stretches of s that stand between an opening and a closing ** marker,
\* from position i on, each as the positions of its first and last character
RECURSIVE HighlightedFrom(_, _)
HighlightedFrom(s, i) ==
    LET open == NextMarker(s, i)
        close == IF open = 0 THEN 0 ELSE NextMarker(s, open + 2)
    IN  IF close = 0 THEN {}
        ELSE {[from |-> open + 2, to |-> close - 1]} \cup HighlightedFrom(s, close + 2)

\* C14: in every snippet extractSnippets returns, what stands between an
\* opening and a closing ** marker is a query word, in any case, standing as
\* a whole word; a query word that occurs only inside a longer word gets no
\* marker around it.
C14_OnlyWholeWordsHighlighted ==
    output.fn = "extractSnippets" =>
        \A k \in 1..Len(output.snippets) :
            \A h \in HighlightedFrom(output.snippets[k], 1) :
                LET s == output.snippets[k]
                IN  /\ ToLowerCase(SubSeq(s, h.from, h.to)) \in Range(input.queryWords)
                    /\ h.from - 2 = 1 \/ ~IsWordChar(s[h.from - 3])
                    /\ h.to + 2 = Len(s) \/ ~IsWordChar(s[h.to + 3])

\* ------------------------------------------------------------------ tokenize, twice

\* C15: tokenize of the tokens of a text joined by single blanks returns the
\* tokens of the text: the same tokens in the same order, repeats kept.
C15_TokenizeIdempotent ==
    output.fn = "retokenize" => output.again = output.tokens

\* C15 witness: a text that is not its tokens joined by blanks had a token
\* twice, and its tokens were tokenized again.
C15_Witness ==
    /\ output.fn = "retokenize"
    /\ Len(output.tokens) >= 2
    /\ output.tokens[1] = output.tokens[2]
    /\ Join(output.tokens, <<" ">>) # input.text

\* ------------------------------------------------------------------ getIndexStats

\* The number of words of the documents of a store, repeats counted
RECURSIVE CountWords(_)
CountWords(docs) ==
    IF docs = <<>> THEN 0
    ELSE Len(ContentWords(Head(docs))) + CountWords(Tail(docs))

\* C16: getIndexStats() reports as documentCount the number of stored
\* documents, as uniqueWords the number of distinct words of the stored
\* documents and as totalWords the number of words of the stored documents,
\* repeats counted.
C16_StatsCountStoredContent ==
    /\ Stats.documentCount = Cardinality(StoredIds(documents))
    /\ Stats.uniqueWords = Cardinality(LiveWords)
    /\ Stats.totalWords = CountWords(documents)

\* ------------------------------------------------------------------ uploads

\* The upload request r goes on from its await of processFile in this step
Resumed(r) ==
    /\ Awaiting(r) /\ requests[r].kind = "upload"
    /\ Len(requests'[r].fileResults) = Len(requests[r].fileResults) + 1

\* The step of an upload over a file whose extraction failed: nothing is
\* added, the file is reported with status 'error', and the handler goes on
\* to the next file or to its response.
FailedFileStep(r) ==
    LET req == requests[r]
        file == req.files[req.next]
        reported == requests'[r].fileResults[Len(requests'[r].fileResults)]
    IN  ~file.ok =>
            /\ documents' = documents
            /\ invertedIndex' = invertedIndex
            /\ uuids' = uuids
            /\ reported.status = "error"
            /\ reported.filename = file.originalname
            /\ IF req.next < Len(req.files)
               THEN requests'[r].pc = "awaiting" /\ requests'[r].next = req.next + 1
               ELSE requests'[r].pc = "done" /\ requests'[r].status = 200

\* The step of an upload over a file whose text was extracted: the document
\* is stored under a new id with that text and reported with status
\* 'completed', whatever became of the files before it.
ExtractedFileStep(r) ==
    LET req == requests[r]
        file == req.files[req.next]
        reported == requests'[r].fileResults[Len(requests'[r].fileResults)]
    IN  file.ok =>
            /\ reported.status = "completed"
            /\ reported.id \notin StoredIds(documents)
            /\ StoredIds(documents') = StoredIds(documents) \cup {reported.id}
            /\ DocumentsGet(documents', reported.id).content = file.content
            /\ DocumentsGet(documents', reported.id).filename = file.originalname

\* A finished upload reports every file of the batch, the failed ones with
\* status 'error' and the others with status 'completed'
BatchReported(r) ==
    (requests[r].kind = "upload" /\ requests[r].pc = "done" /\ requests[r].status = 200)
    => /\ Len(requests[r].fileResults) = Len(requests[r].files)
       /\ \A k \in 1..Len(requests[r].files) :
             requests[r].fileResults[k].status
                = IF requests[r].files[k].ok THEN "completed" ELSE "error"

\* C17: a file whose text extraction fails is not added (the store and the
\* index stay as they were), is reported with status 'error', and the other
\* files of its batch are still processed and added.
C17_FailedFileIsNeverAdded ==
    /\ [](\A r \in 1..Len(requests) : BatchReported(r))
    /\ [][\A r \in 1..Len(requests) :
            Resumed(r) => FailedFileStep(r) /\ ExtractedFileStep(r)]_vars

\* C17 witness: an upload of a file that failed and a file after it is
\* done, the first reported with status 'error', the second stored.
C17_Witness ==
    \E r \in 1..Len(requests) :
        /\ requests[r].kind = "upload" /\ requests[r].pc = "done"
        /\ Len(requests[r].fileResults) = 2
        /\ ~requests[r].files[1].ok
        /\ requests[r].fileResults[1].status = "error"
        /\ requests[r].fileResults[2].status = "completed"
        /\ requests[r].fileResults[2].id \in StoredIds(documents)
        /\ Len(documents) = 1

\* ------------------------------------------------------------------ stored records

\* The step is the call op(id)
Called(op, id) == lastOp'.op = op /\ lastOp'.id = id

\* The record stored under id is after the step what it was before it
RecordKept(id) ==
    /\ id \in StoredIds(documents')
    /\ DocumentsGet(documents', id) = DocumentsGet(documents, id)

\* C18 as stated: no call other than removeDocument(D.id) changes the
\* filename, content or uploadedAt stored under D.id.
C18_OnlyRemoveChangesRecord ==
    [][\A id \in StoredIds(documents) :
          ~Called("removeDocument", id) => RecordKept(id)]_vars

\* C18 amended: no call other than removeDocument(D.id), which deletes the
\* record, and addDocument of a document with the id D.id, which overwrites
\* it, changes the filename, content or uploadedAt stored under D.id.
C18_OnlyRemoveOrAddChangesRecord ==
    [][\A id \in StoredIds(documents) :
          (~Called("removeDocument", id) /\ ~Called("addDocument", id))
          => RecordKept(id)]_vars

\* C18 witness: a document is stored after a document under another id was
\* added and removed again.
C18_Witness ==
    /\ lastOp.op = "removeDocument" /\ lastOp.ret /\ lastOp.afterAdd
    /\ Len(documents) = 1
    /\ documents[1].id # lastOp.id
    /\ documents[1].content # <<>>

\* The number of positions posted for id under each word of a set, summed
RECURSIVE SumPostings(_, _, _)
SumPostings(idx, id, words) ==
    IF words = {} THEN 0
    ELSE LET w == CHOOSE x \in words : TRUE
         IN  Len(PostingOf(idx, w, id)) + SumPostings(idx, id, words \ {w})

\* C19: for every result, the raw score under the coverage boost is the sum,
\* over the distinct query words, of the number of positions of the word in
\* the document, a word that is repeated in the query counted once; the
\* score of the result is that sum times (1 + termCoverage).
C19_RepeatedWordCountsOnce ==
    \A query \in RankQueries :
        LET r == AllResults(query)
            queryWords == QueryWords(query)
        IN  \A i \in 1..Len(r) :
                r[i].score.num * Len(queryWords)
                    = SumPostings(invertedIndex, r[i].document.id, Range(queryWords))
                        * (Len(queryWords) + Len(r[i].matchedTerms))
                        * r[i].score.den

\* Some word stands more than once in a sequence of words
HasRepeat(words) == Cardinality(Range(words)) < Len(words)

\* The query words posted for id
PostedWords(idx, queryWords, id) ==
    {w \in Range(queryWords) : PostingOf(idx, w, id) # <<>>}

\* C20: finalScore = score * (1 + termCoverage), where score is the raw
\* score of the document and termCoverage the number of distinct matched
\* terms over the number of query words, repeats counted. So under a query
\* with a repeated word every result has termCoverage < 1 and
\* finalScore < 2 * score, and under a query without one a document that
\* matches every query word has finalScore = 2 * score.
C20_CoverageOverQueryLength ==
    \A query \in RankQueries :
        LET r == AllResults(query)
            queryWords == QueryWords(query)
        IN  \A i \in 1..Len(r) :
                LET score == RawScore(invertedIndex, queryWords, r[i].document.id)
                    matched == Cardinality(PostedWords(invertedIndex, queryWords,
                                                       r[i].document.id))
                    finalScore == r[i].score
                IN  /\ Range(r[i].matchedTerms)
                         = PostedWords(invertedIndex, queryWords, r[i].document.id)
                    /\ finalScore.num * Len(queryWords)
                         = score * (Len(queryWords) + matched) * finalScore.den
                    /\ HasRepeat(queryWords)
                       => /\ matched < Len(queryWords)
                          /\ finalScore.num < 2 * score * finalScore.den
                    /\ (~HasRepeat(queryWords) /\ matched = Len(queryWords))
                       => finalScore.num = 2 * score * finalScore.den

\* C20 witness: a search of a query with a repeated word returned a document
\* that matches every word of the query.
C20_Witness ==
    /\ lastOp.op = "search"
    /\ HasRepeat(QueryWords(lastOp.query))
    /\ \E i \in 1..Len(lastOp.results) :
          Range(lastOp.results[i].matchedTerms) = Range(QueryWords(lastOp.query))

\* ------------------------------------------------------------------ what a result holds

\* C21: every result of a search refers to a stored document, its
\* matchedTerms is not empty and is exactly the set of distinct query words
\* among the words of that document's content, and no document is in a
\* result list twice.
C21_ResultsAreMatchingDocuments ==
    \A query \in Queries :
        LET r == AllResults(query)
            queryWords == QueryWords(query)
        IN  /\ \A i \in 1..Len(r) :
                 /\ r[i].document.id \in StoredIds(documents)
                 /\ r[i].matchedTerms # <<>>
                 /\ Cardinality(Range(r[i].matchedTerms)) = Len(r[i].matchedTerms)
                 /\ Range(r[i].matchedTerms)
                      = Range(queryWords)
                        \cap Range(ContentWords(DocumentsGet(documents, r[i].document.id)))
            /\ \A i, j \in 1..Len(r) : r[i].document.id = r[j].document.id => i = j

\* ------------------------------------------------------------------ posting lists

\* The 0-based positions at which a word stands in a sequence of words, in
\* increasing order
PositionsOf(words, word) ==
    SelectSeq([i \in 1..Len(words) |-> i - 1], LAMBDA p : words[p + 1] = word)

\* C22: for every stored document and every word, the posting list of the
\* word for the document is the strictly increasing sequence of the 0-based
\* positions of the word in tokenize(content.toLowerCase()); the posting
\* lists of one document are pairwise disjoint and cover 0..n-1, n being the
\* number of its words.
C22_PostingsArePositions ==
    \A d \in 1..Len(documents) :
        LET id == documents[d].id
            words == ContentWords(documents[d])
            keys == DOMAIN invertedIndex \cup Range(words)
        IN  /\ \A w \in keys :
                 PostingOf(invertedIndex, w, id) = PositionsOf(words, w)
            /\ \A w \in keys :
                 \A i, j \in 1..Len(PostingOf(invertedIndex, w, id)) :
                    i < j => PostingOf(invertedIndex, w, id)[i]
                               < PostingOf(invertedIndex, w, id)[j]
            /\ \A v, w \in keys :
                 v # w => Range(PostingOf(invertedIndex, v, id))
                            \cap Range(PostingOf(invertedIndex, w, id)) = {}
            /\ UNION {Range(PostingOf(invertedIndex, w, id)) : w \in keys}
                 = 0..(Len(words) - 1)

\* ------------------------------------------------------------------ the shape of a token

\* A non-empty string of lowercase ASCII letters and digits, three or more
IsToken(word) ==
    /\ Len(word) >= 3
    /\ \A i \in 1..Len(word) : word[i] \in Range(LowerLetters) \cup Digits

\* Every key of the index and every word tokenize returns for the lowercased
\* content of a stored document or for a lowercased query is such a string
TokensAreNormalized ==
    /\ \A w \in DOMAIN invertedIndex : IsToken(w)
    /\ \A d \in 1..Len(documents) : \A w \in Range(ContentWords(documents[d])) : IsToken(w)
    /\ \A query \in Queries : \A w \in Range(QueryWords(query)) : IsToken(w)

\* search matches the query word w to the stored document id
MatchedBy(query, w, id) ==
    \E i \in 1..Len(AllResults(query)) :
        /\ AllResults(query)[i].document.id = id
        /\ w \in Range(AllResults(query)[i].matchedTerms)

\* C23: every key of the index and every word tokenize returns for a
\* lowercased content or query is a string of three or more lowercase ASCII
\* letters and digits, and a query word matches a stored document exactly
\* when it is one of the words of the document's content.
C23_NormalizedAndMatchedByEquality ==
    /\ TokensAreNormalized
    /\ \A query \in Queries : \A d \in 1..Len(documents) :
          \A w \in Range(QueryWords(query)) :
              MatchedBy(query, w, documents[d].id)
              <=> w \in Range(ContentWords(documents[d]))

\* ------------------------------------------------------------------ which sentences become snippets

\* The entries of queryWords that occur in a sentence, in any case, each
\* entry of the query counted
OccurringEntries(sentence, queryWords) ==
    {k \in 1..Len(queryWords) : Includes(ToLowerCase(sentence), queryWords[k])}

\* The qualifying sentences of the content that contain a query word, in
\* the order of the content
MatchingSentences(content, queryWords) ==
    SelectSeq(SelectSeq(SplitSentences(content), LongEnough),
              LAMBDA s : OccurringEntries(s, queryWords) # {})

\* The first n sentences of a sequence, or all of them
FirstOf(sentences, n) ==
    SubSeq(sentences, 1, IF Len(sentences) < n THEN Len(sentences) ELSE n)

\* The snippets of the first maxSnippets matching sentences, the ones with
\* more matches first and the others in the order of the content
SnippetsOfFirst(content, queryWords, maxSnippets) ==
    LET first == FirstOf(MatchingSentences(content, queryWords), maxSnippets)
        sorted == SortDesc([i \in 1..Len(first) |->
                    [key |-> Cardinality(OccurringEntries(first[i], queryWords)),
                     val |-> HighlightAll(Trim(first[i]), queryWords)]])
    IN  [i \in 1..Len(sorted) |-> sorted[i].val]

\* C24: extractSnippets returns at most maxSnippets snippets: the first
\* maxSnippets sentences of more than 10 characters that contain a query
\* word, in the order of their match counts, the higher first; a later
\* sentence is not returned once maxSnippets earlier ones match, whatever
\* its match count. The match count is the one extractSnippets gives the
\* sentence.
C24_FirstMatchingSentences ==
    output.fn = "extractSnippets" =>
        /\ Len(output.snippets) <= input.maxSnippets
        /\ output.snippets
             = SnippetsOfFirst(input.content, input.queryWords, input.maxSnippets)

\* C24 witness: more sentences matched than were asked for, and one that
\* was left out has a higher match count than one that was returned.
C24_Witness ==
    /\ output.fn = "extractSnippets"
    /\ Len(output.snippets) = input.maxSnippets
    /\ LET matching == MatchingSentences(input.content, input.queryWords)
       IN  /\ Len(matching) > input.maxSnippets
           /\ \E k \in (input.maxSnippets + 1)..Len(matching) :
                 Cardinality(OccurringEntries(matching[k], input.queryWords))
                   > Cardinality(OccurringEntries(matching[1], input.queryWords))

\* The distinct query words that occur in a sentence, in any case
OccurringWords(sentence, queryWords) ==
    {w \in Range(queryWords) : Includes(ToLowerCase(sentence), w)}

\* The snippets of the first maxSnippets matching sentences, ordered by the
\* number of distinct query words in them
SnippetsByDistinctWords(content, queryWords, maxSnippets) ==
    LET first == FirstOf(MatchingSentences(content, queryWords), maxSnippets)
        sorted == SortDesc([i \in 1..Len(first) |->
                    [key |-> Cardinality(OccurringWords(first[i], queryWords)),
                     val |-> HighlightAll(Trim(first[i]), queryWords)]])
    IN  [i \in 1..Len(sorted) |-> sorted[i].val]

\* C25: the match count of a sentence, by which extractSnippets orders its
\* snippets, is the number of distinct query words that occur in it as a
\* substring in any case, a word repeated in the query counted once; and a
\* sentence without a match is not returned.
C25_DistinctWordsCounted ==
    output.fn = "extractSnippets" =>
        /\ output.snippets
             = SnippetsByDistinctWords(input.content, input.queryWords, input.maxSnippets)
        /\ Len(output.snippets)
             <= Len(MatchingSentences(input.content, input.queryWords))

\* ------------------------------------------------------------------ documents of short sentences

\* No fragment of the content between ., ! and ? has more than 10
\* characters after trimming
NoLongSentence(content) ==
    \A k \in 1..Len(SplitSentences(content)) : Len(Trim(SplitSentences(content)[k])) <= 10

\* C26: a stored document without a sentence of 11 or more characters is
\* returned by every search that matches one of its words, with
\* matchedTerms, score and relevance as for any other document and with no
\* snippet.
C26_ShortSentencesNoSnippets ==
    \A query \in RankQueries : \A d \in 1..Len(documents) :
        LET queryWords == QueryWords(query)
            id == documents[d].id
            own == Range(queryWords) \cap Range(ContentWords(documents[d]))
            r == AllResults(query)
        IN  (NoLongSentence(documents[d].content) /\ own # {})
            => \E i \in 1..Len(r) :
                  /\ r[i].document.id = id
                  /\ r[i].snippets = <<>>
                  /\ own \subseteq Range(r[i].matchedTerms)
                  /\ r[i].score.num > 0
                  /\ r[i].score.num * Len(queryWords)
                       = RawScore(invertedIndex, queryWords, id)
                           * (Len(queryWords) + Len(r[i].matchedTerms))
                           * r[i].score.den
                  /\ r[i].relevance.num * 100 * Len(queryWords)
                       = (IF 80 * Len(r[i].matchedTerms) + 20 * Len(queryWords)
                               > 95 * Len(queryWords)
                          THEN 95 * Len(queryWords)
                          ELSE 80 * Len(r[i].matchedTerms) + 20 * Len(queryWords))
                         * r[i].relevance.den

\* C26 witness: a search returned a document without a sentence of 11 or
\* more characters, with matched terms and no snippet, next to a document
\* with a snippet.
C26_Witness ==
    /\ lastOp.op = "search"
    /\ \E i, j \in 1..Len(lastOp.results) :
          /\ NoLongSentence(DocumentsGet(documents, lastOp.results[i].document.id).content)
          /\ lastOp.results[i].snippets = <<>>
          /\ lastOp.results[i].matchedTerms # <<>>
          /\ lastOp.results[j].snippets # <<>>

\* ------------------------------------------------------------------ dangling postings

\* C27: every document id in a posting map of the index is a key of the
\* document store, so search finds the document of every id it scores and
\* does not throw.
C27_NoDanglingPostings ==
    /\ PostedIds \subseteq StoredIds(documents)
    /\ \A query \in Queries :
          ~search(documents, invertedIndex, query, Len(documents)).threw
    /\ lastOp.threw = FALSE

\* C27 witness: removeDocument deleted a document with postings while
\* another document with postings stays stored.
C27_Witness ==
    /\ lastOp.op = "removeDocument" /\ lastOp.ret
    /\ lastOp.before.totalWords > Stats.totalWords
    /\ Stats.totalWords > 0
    /\ lastOp.id \notin StoredIds(documents)
    /\ PostedIds # {}

\* ------------------------------------------------------------------ calls that only read

ReadCalls == {"search", "getDocument", "getAllDocuments", "getIndexStats"}

\* C28: search, getDocument, getAllDocuments and getIndexStats leave the
\* document store and the index as they are, for every query and limit, and
\* a search repeated with no addDocument or removeDocument in between
\* returns what it returned before.
C28_ReadsChangeNothing ==
    /\ [](lastOp.op = "search" =>
            /\ search(documents, invertedIndex, lastOp.query, lastOp.limit).results
                 = lastOp.results
            /\ search(documents, invertedIndex, lastOp.query, lastOp.limit).threw
                 = lastOp.threw)
    /\ [][lastOp'.op \in ReadCalls =>
            /\ documents' = documents
            /\ invertedIndex' = invertedIndex]_vars

\* C28 witness: a search over two stored documents returned both, and the
\* store and the index hold what the results were made of.
C28_Witness ==
    /\ lastOp.op = "search"
    /\ Len(lastOp.results) = 2
    /\ Len(documents) = 2
    /\ \A i \in 1..2 : lastOp.results[i].document.id \in PostedIds

\* ------------------------------------------------------------------ calls on one document

\* The record and the posting lists of id are after the step what they were
\* before it
DocumentUntouched(id) ==
    /\ id \in StoredIds(documents') <=> id \in StoredIds(documents)
    /\ DocumentsGet(documents', id) = DocumentsGet(documents, id)
    /\ \A w \in DOMAIN invertedIndex \cup DOMAIN invertedIndex' :
          PostingOf(invertedIndex', w, id) = PostingOf(invertedIndex, w, id)

\* C29: addDocument(D) and removeDocument(id) leave the record and every
\* posting list of every other document id as they were, and a word that
\* another document is posted under is still a key of the index after the
\* removal.
C29_OnlyOwnDocumentAffected ==
    [][lastOp'.op \in {"addDocument", "removeDocument"} =>
          /\ \A id \in (Ids \cup PostedIds \cup StoredIds(documents)) \ {lastOp'.id} :
                DocumentUntouched(id)
          /\ lastOp'.op = "removeDocument" =>
                \A w \in DOMAIN invertedIndex :
                    (\E other \in DocMapIds(invertedIndex[w]) : other # lastOp'.id)
                    => w \in DOMAIN invertedIndex']_vars

\* C29 witness: a document was added under a new id while one of its words
\* was a key of the index already, and removed again; the word is still a
\* key.
C29_Witness ==
    LET words == tokenize(ToLowerCase(ContentPool[2]))
    IN  /\ lastOp.op = "removeDocument" /\ lastOp.ret
        /\ lastOp.afterAdd /\ lastOp.fresh
        /\ lastOp.before.totalWords - lastOp.beforeAdd.totalWords = Len(words)
        /\ lastOp.before.uniqueWords - lastOp.beforeAdd.uniqueWords
             < Cardinality(Range(words))
        /\ Range(words) \cap DOMAIN invertedIndex # {}

\* ------------------------------------------------------------------ concurrent deletes

\* The delete requests for id that were answered 'Document deleted
\* successfully'
DeletedBy(id) ==
    {r \in 1..Len(requests) :
        /\ requests[r].kind = "delete" /\ requests[r].id = id
        /\ requests[r].pc = "done" /\ requests[r].status = 200}

\* The delete request r is answered 'Document deleted successfully' in this
\* step
AnswersDeleted(r) ==
    /\ Awaiting(r) /\ requests[r].kind = "delete"
    /\ requests'[r].pc = "done" /\ requests'[r].status = 200

\* C30: under every interleaving of DELETE /api/documents/:id requests, at
\* most one request reports a stored document as deleted successfully, and
\* a request is answered so only when its removeDocument removed the
\* document; the others get 404.
C30_OneDeleteSucceeds ==
    /\ [](\A id \in HttpIds : Cardinality(DeletedBy(id)) <= 1)
    /\ [][\A r \in 1..Len(requests) :
            AnswersDeleted(r) =>
                /\ requests[r].id \in StoredIds(documents)
                /\ requests[r].id \notin StoredIds(documents')]_vars

=============================================================================
